---- MODULE Spec2Model ----
(***************************************************************************)
(* rend3: the deferred instruction queue (InstructionStreamPair, with the  *)
(* callers that push and the frame-processing thread that swaps and        *)
(* drains) and the sparse light store of DirectionalLightManager.          *)
(*                                                                         *)
(*   src/rend3/src/instruction.rs            InstructionStreamPair         *)
(*   src/rend3/src/managers/directional.rs   DirectionalLightManager       *)
(***************************************************************************)
EXTENDS Integers, Sequences, FiniteSets, TLC

\* ------------------------------------------------------------------ bounds

\* Pushes the caller threads issue in all.
MaxPush == 4

\* Pushes issued in all in the frame loop.
MaxFramePush == 3

\* Pushes issued in all where two threads call swap.
MaxConcPush == 2

\* Calls of swap and of the drain issued where two threads call swap.
MaxCalls == 3

\* Largest handle index used in direct calls of the light manager.
MaxHandle == 2

\* Conversions of a handle into a delete instruction that are kept side by side.
MaxConversions == 2

\* ----------------------------------------------------------------- threads

\* Caller threads that push instructions; pusher t works on its own handle.
Pushers == {"p1", "p2"}

\* The frame-processing thread: calls swap and drains the consumer.
Frame == "frame"

\* Another thread calling swap (swap is a public method of a Sync type).
Aux == "aux"

Swappers == {Frame, Aux}

Threads == Pushers \cup Swappers

NoThread == "none"

HandleOf(t) == IF t = "p1" THEN 0 ELSE 1

\* ------------------------------------------------------------------ values

None == [some |-> FALSE]

Some(x) == [some |-> TRUE, val |-> x]

IsSome(o) == o.some

Intensities == {1, 2}

Resolutions == {16, 64}

\* DirectionalLight, reduced to the fields the manager reads.
Lights == [intensity : Intensities, resolution : Resolutions]

\* DirectionalLightChange: every field optional.
Changes == [intensity : {None} \cup {Some(i) : i \in Intensities},
            resolution : {None} \cup {Some(r) : r \in Resolutions}]

\* Payloads the caller threads put in the instructions they push.
PushLights == {[intensity |-> 1, resolution |-> 64]}

PushChanges == {[intensity |-> Some(2), resolution |-> None]}

\* InstructionKind, the three directional-light variants.
AddDirectionalLight(h, L) == [kind |-> "AddDirectionalLight", handle |-> h, light |-> L]

ChangeDirectionalLight(h, c) == [kind |-> "ChangeDirectionalLight", handle |-> h, change |-> c]

DeleteDirectionalLight(h) == [kind |-> "DeleteDirectionalLight", handle |-> h]

\* Instruction { kind, location }: the location is the call site, here the
\* calling thread and the number of the call.
Instruction(k, loc) == [kind |-> k, location |-> loc]

NoInstruction == [kind |-> None, location |-> <<>>]

\* ------------------------------------------------------------------- state

VARIABLES
    producer,   \* InstructionStreamPair.producer: Vec<Instruction>
    consumer,   \* InstructionStreamPair.consumer: Vec<Instruction>
    lock,       \* holder of each of the two mutexes
    pc,         \* each thread's position in the call it is in
    arg,        \* the instruction a pusher's current call carries
    pushed,     \* calls of push each pusher has issued
    phase,      \* per pusher: whether it has added its light and not deleted it
    data,       \* DirectionalLightManager.data: Vec<Option<light>>
    panicked,   \* a contract violation has ended the process
    lastCall,   \* the last direct call of the light manager and the store before it
    texture_size, \* DirectionalLightManager.texture_size: UVec2
    texture_view, \* DirectionalLightManager.texture_view: the shadow texture held
    data_buffer,  \* DirectionalLightManager.data_buffer: what was last written to it
    limits,       \* renderer.limits.max_texture_dimension_2d, once evaluate has seen it
    conversions,  \* the handles turned into delete instructions, with the results
    applied,    \* history: the instructions taken out and applied, in order
    appendLog,  \* history: the instructions appended to the producer, in order
    sinceSwap,  \* history: instructions appended since the last swap
    carried,    \* history: what the consumer held when the last swap exchanged
    lastSwap,   \* history: sinceSwap and carried as the last swap found them
    swaps,      \* history: swaps performed (0, 1, 2 = more)
    drainedSwaps, \* history: every swap so far found the consumer empty
    calls,      \* history: calls of swap and of the drain issued (up to MaxCalls)
    frameLast   \* the frame thread's previous call

queueVars == <<producer, consumer, lock, pc, arg, pushed, phase>>

histVars ==
    <<applied, appendLog, sinceSwap, carried, lastSwap, swaps, drainedSwaps, calls, frameLast>>

atlasVars == <<texture_size, texture_view, data_buffer, limits>>

lightVars == <<data, panicked, lastCall, atlasVars>>

vars == <<queueVars, histVars, lightVars, conversions>>

NoSwap == [valid |-> FALSE, pushes |-> <<>>, carried |-> <<>>]

NoCall == [op |-> "none"]

\* glam::UVec2 as a pair <<x, y>>; splat, min and max are component-wise.
UVec2Splat(n) == <<n, n>>

UVec2Min(a, b) ==
    <<IF a[1] <= b[1] THEN a[1] ELSE b[1], IF a[2] <= b[2] THEN a[2] ELSE b[2]>>

UVec2Max(a, b) ==
    <<IF a[1] >= b[1] THEN a[1] ELSE b[1], IF a[2] >= b[2] THEN a[2] ELSE b[2]>>

\* const MINIMUM_SHADOW_MAP_SIZE: UVec2 = UVec2::splat(32)
MINIMUM_SHADOW_MAP_SIDE == 32

MINIMUM_SHADOW_MAP_SIZE == UVec2Splat(MINIMUM_SHADOW_MAP_SIDE)

\* create_shadow_texture: a new texture of the given size and a view of it.
\* id is the name the device gives the new texture; two names are enough to
\* tell a texture from the one that was held before it.
create_shadow_texture(id, size) == [id |-> id, size |-> size]

\* The name of a texture that is not the one behind the view held.
FreshTexture(view) == 1 - view.id

\* WrappedPotBuffer::new: nothing has been written to the buffer yet.
EmptyBuffer == [count |-> 0, array |-> <<>>]

Init ==
    /\ producer = <<>>
    /\ consumer = <<>>
    /\ lock = [l \in {"producer", "consumer"} |-> NoThread]
    /\ pc = [t \in Threads |-> "idle"]
    /\ arg = [t \in Pushers |-> NoInstruction]
    /\ pushed = [t \in Pushers |-> 0]
    /\ phase = [t \in Pushers |-> "none"]
    /\ data = <<>>
    /\ panicked = FALSE
    /\ lastCall = NoCall
    /\ texture_size = MINIMUM_SHADOW_MAP_SIZE
    /\ texture_view = create_shadow_texture(0, MINIMUM_SHADOW_MAP_SIZE)
    /\ data_buffer = EmptyBuffer
    /\ limits = None
    /\ conversions = <<>>
    /\ applied = <<>>
    /\ appendLog = <<>>
    /\ sinceSwap = <<>>
    /\ carried = <<>>
    /\ lastSwap = NoSwap
    /\ swaps = 0
    /\ drainedSwaps = TRUE
    /\ calls = 0
    /\ frameLast = "drain"

\* ------------------------------------------- DirectionalLightManager store

\* Vec::resize_with(n, || None)
ResizeWith(d, n) ==
    IF n <= Len(d) THEN SubSeq(d, 1, n)
    ELSE d \o [i \in 1..(n - Len(d)) |-> None]

\* Slot handle.idx of the 0-indexed Vec is element idx + 1 of the sequence.
Slot(d, h) == d[h + 1]

\* A handle whose slot exists and holds a light.
Live(d, h) == h < Len(d) /\ IsSome(Slot(d, h))

\* An add that leaves a live slot as it is.
addIfEmpty(d, h, L) ==
    IF h < Len(d) /\ IsSome(d[h + 1]) THEN d
    ELSE [(IF h >= Len(d) THEN ResizeWith(d, h + 1) ELSE d) EXCEPT ![h + 1] = Some(L)]

\* An add that resizes without comparing the index with the length.
addAlwaysResizes(d, h, L) ==
    [ResizeWith(d, h + 1) EXCEPT ![h + 1] = Some(L)]

\* DirectionalLightManager::add
add(d, h, L) ==
    LET grown == IF h >= Len(d) THEN ResizeWith(d, h + 1) ELSE d
    IN  [grown EXCEPT ![h + 1] = Some(L)]

\* DirectionalLight::update_from_changes: only the fields given change.
update_from_changes(L, c) ==
    [intensity  |-> IF IsSome(c.intensity) THEN c.intensity.val ELSE L.intensity,
     resolution |-> IF IsSome(c.resolution) THEN c.resolution.val ELSE L.resolution]

\* DirectionalLightManager::update panics on an index past the end (the
\* indexing) and on an empty slot (the unwrap).
updatePanics(d, h) == h >= Len(d) \/ ~IsSome(Slot(d, h))

\* DirectionalLightManager::update
update(d, h, c) ==
    [d EXCEPT ![h + 1] = Some(update_from_changes(Slot(d, h).val, c))]

\* A remove that takes the slot's content without unwrapping it.
removePanicsOnIndexOnly(d, h) == h >= Len(d)

\* DirectionalLightManager::remove panics on an index past the end (the
\* indexing) and on an empty slot (the unwrap after take).
removePanics(d, h) == h >= Len(d) \/ ~IsSome(Slot(d, h))

\* A remove that reads the slot without taking the light out.
removeKeepsSlot(d, h) == d

\* DirectionalLightManager::remove: take() leaves None in the slot.
remove(d, h) == [d EXCEPT ![h + 1] = None]

\* The frame-processing stage routes a drained instruction to the manager.
ApplyPanics(d, k) ==
    CASE k.kind = "AddDirectionalLight"    -> FALSE
      [] k.kind = "ChangeDirectionalLight" -> updatePanics(d, k.handle)
      [] k.kind = "DeleteDirectionalLight" -> removePanics(d, k.handle)

Apply(d, k) ==
    CASE k.kind = "AddDirectionalLight"    -> add(d, k.handle, k.light)
      [] k.kind = "ChangeDirectionalLight" -> update(d, k.handle, k.change)
      [] k.kind = "DeleteDirectionalLight" -> remove(d, k.handle)

\* --------------------------------------------------- InstructionStreamPair

\* A push at the front.
VecPushFront(v, x) == <<x>> \o v

\* Vec::push in InstructionStreamPair::push
VecPush(v, x) == Append(v, x)

\* A swap that takes the producer and drops what the consumer held.
MemTake(p, c) == <<<<>>, p>>

\* A swap that moves the producer's content behind the consumer's.
MemMoveBehind(p, c) == <<<<>>, c \o p>>

\* A swap that exchanges nothing.
MemSwapNothing(p, c) == <<p, c>>

\* mem::swap(&mut *produce, &mut *consume): the new <<producer, consumer>>
MemSwap(p, c) == <<c, p>>

\* A lock order that depends on the caller.
SwapLockOrderByCaller(t) ==
    IF t = Aux THEN <<"consumer", "producer">> ELSE <<"producer", "consumer">>

\* The order in which swap takes the two locks.
SwapLockOrder(t) == <<"producer", "consumer">>

Acquire(l, t) == [lock EXCEPT ![l] = t]

Release(held, t) == [l \in DOMAIN held |-> IF held[l] = t THEN NoThread ELSE held[l]]

\* The instructions a caller may push next about its own handle: a light is
\* added, then changed any number of times, then deleted.
NextKinds(t) ==
    IF phase[t] = "none"
    THEN {AddDirectionalLight(HandleOf(t), L) : L \in PushLights}
    ELSE {ChangeDirectionalLight(HandleOf(t), c) : c \in PushChanges}
         \cup {DeleteDirectionalLight(HandleOf(t))}

\* Calls of push issued so far, by all callers.
Issued == pushed["p1"] + pushed["p2"]

\* push is called: the caller passes kind and location.
PushCall(t) ==
    /\ ~panicked
    /\ pc[t] = "idle"
    /\ Issued < MaxPush
    /\ \E k \in NextKinds(t) :
         /\ arg' = [arg EXCEPT ![t] = Instruction(k, <<t, pushed[t] + 1>>)]
         /\ phase' = [phase EXCEPT ![t] =
                IF k.kind = "DeleteDirectionalLight" THEN "none" ELSE "live"]
    /\ pushed' = [pushed EXCEPT ![t] = @ + 1]
    /\ pc' = [pc EXCEPT ![t] = "push_lock"]
    /\ UNCHANGED <<producer, consumer, lock, histVars, lightVars, conversions>>

\* self.producer.lock()
PushLock(t) ==
    /\ ~panicked
    /\ pc[t] = "push_lock"
    /\ lock["producer"] = NoThread
    /\ lock' = Acquire("producer", t)
    /\ pc' = [pc EXCEPT ![t] = "push_append"]
    /\ UNCHANGED <<producer, consumer, arg, pushed, phase, histVars, lightVars, conversions>>

\* .push(Instruction { kind, location }); the guard drops with the statement.
PushAppend(t) ==
    /\ ~panicked
    /\ pc[t] = "push_append"
    /\ producer' = VecPush(producer, arg[t])
    /\ lock' = Release(lock, t)
    /\ arg' = [arg EXCEPT ![t] = NoInstruction]
    /\ pc' = [pc EXCEPT ![t] = "idle"]
    /\ appendLog' = Append(appendLog, arg[t])
    /\ sinceSwap' = Append(sinceSwap, arg[t])
    /\ lastSwap' = NoSwap
    /\ UNCHANGED <<consumer, pushed, phase, applied, carried, swaps, drainedSwaps,
                   calls, frameLast, lightVars, conversions>>

\* swap is called.
SwapCall(t) ==
    /\ ~panicked
    /\ pc[t] = "idle"
    /\ pc' = [pc EXCEPT ![t] = "swap_lock1"]
    /\ frameLast' = IF t = Frame THEN "swap" ELSE frameLast
    /\ calls' = IF calls < MaxCalls THEN calls + 1 ELSE calls
    /\ UNCHANGED <<producer, consumer, lock, arg, pushed, phase, lightVars, conversions,
                   applied, appendLog, sinceSwap, carried, lastSwap, swaps, drainedSwaps>>

\* let mut produce = self.producer.lock();
SwapLock1(t) ==
    /\ ~panicked
    /\ pc[t] = "swap_lock1"
    /\ lock[SwapLockOrder(t)[1]] = NoThread
    /\ lock' = Acquire(SwapLockOrder(t)[1], t)
    /\ pc' = [pc EXCEPT ![t] = "swap_lock2"]
    /\ UNCHANGED <<producer, consumer, arg, pushed, phase, histVars, lightVars, conversions>>

\* let mut consume = self.consumer.lock();
SwapLock2(t) ==
    /\ ~panicked
    /\ pc[t] = "swap_lock2"
    /\ lock[SwapLockOrder(t)[2]] = NoThread
    /\ lock' = Acquire(SwapLockOrder(t)[2], t)
    /\ pc' = [pc EXCEPT ![t] = "swap_exchange"]
    /\ UNCHANGED <<producer, consumer, arg, pushed, phase, histVars, lightVars, conversions>>

\* mem::swap(&mut *produce, &mut *consume); both guards drop on return.
SwapExchange(t) ==
    /\ ~panicked
    /\ pc[t] = "swap_exchange"
    /\ producer' = MemSwap(producer, consumer)[1]
    /\ consumer' = MemSwap(producer, consumer)[2]
    /\ lock' = Release(lock, t)
    /\ pc' = [pc EXCEPT ![t] = "idle"]
    /\ lastSwap' = [valid |-> TRUE, pushes |-> sinceSwap, carried |-> carried]
    /\ carried' = consumer
    /\ sinceSwap' = <<>>
    /\ swaps' = IF swaps < 2 THEN swaps + 1 ELSE swaps
    /\ drainedSwaps' = (drainedSwaps /\ consumer = <<>>)
    /\ UNCHANGED <<arg, pushed, phase, applied, appendLog, calls, frameLast, lightVars, conversions>>

\* The frame thread starts draining the consumer.
DrainCall ==
    /\ ~panicked
    /\ pc[Frame] = "idle"
    /\ pc' = [pc EXCEPT ![Frame] = "drain_lock"]
    /\ frameLast' = "drain"
    /\ calls' = IF calls < MaxCalls THEN calls + 1 ELSE calls
    /\ UNCHANGED <<producer, consumer, lock, arg, pushed, phase, lightVars, conversions,
                   applied, appendLog, sinceSwap, carried, lastSwap, swaps, drainedSwaps>>

\* instructions.consumer.lock()
DrainLock ==
    /\ ~panicked
    /\ pc[Frame] = "drain_lock"
    /\ lock["consumer"] = NoThread
    /\ lock' = Acquire("consumer", Frame)
    /\ pc' = [pc EXCEPT ![Frame] = "drain_apply"]
    /\ UNCHANGED <<producer, consumer, arg, pushed, phase, histVars, lightVars, conversions>>

\* The next instruction leaves the consumer and is applied to its manager.
DrainApply ==
    /\ ~panicked
    /\ pc[Frame] = "drain_apply"
    /\ consumer # <<>>
    /\ consumer' = Tail(consumer)
    /\ applied' = Append(applied, Head(consumer))
    /\ lastSwap' = NoSwap
    /\ IF ApplyPanics(data, Head(consumer).kind)
       THEN panicked' = TRUE /\ data' = data
       ELSE panicked' = FALSE /\ data' = Apply(data, Head(consumer).kind)
    /\ UNCHANGED <<producer, lock, pc, arg, pushed, phase, lastCall, atlasVars,
                   appendLog, sinceSwap, carried, swaps, drainedSwaps, calls, frameLast,
                   conversions>>

\* The consumer is empty: the drain ends and the consumer lock is released.
DrainReturn ==
    /\ ~panicked
    /\ pc[Frame] = "drain_apply"
    /\ consumer = <<>>
    /\ lock' = Release(lock, Frame)
    /\ pc' = [pc EXCEPT ![Frame] = "idle"]
    /\ UNCHANGED <<producer, consumer, arg, pushed, phase, histVars, lightVars, conversions>>

\* The steps of a call of push or swap after the call itself.
PushStep(t) == PushLock(t) \/ PushAppend(t)

SwapStep(t) == SwapLock1(t) \/ SwapLock2(t) \/ SwapExchange(t)

DrainStep == DrainLock \/ DrainApply \/ DrainReturn

\* Any sequence of calls: callers push, and the frame thread swaps and drains
\* in any order.
Next ==
    \/ \E t \in Pushers : PushCall(t) \/ PushLock(t) \/ PushAppend(t)
    \/ SwapCall(Frame) \/ SwapLock1(Frame) \/ SwapLock2(Frame) \/ SwapExchange(Frame)
    \/ DrainCall \/ DrainLock \/ DrainApply \/ DrainReturn

Spec == Init /\ [][Next]_vars

\* Concurrent use: callers push, the frame thread swaps and drains in any
\* order, and another thread swaps at any time; MaxConcPush pushes and
\* MaxCalls calls of swap and of the drain in all.
BoundedPushCall(t) == Issued < MaxConcPush /\ PushCall(t)

BoundedSwapCall(t) == calls < MaxCalls /\ SwapCall(t)

BoundedDrainCall == calls < MaxCalls /\ DrainCall

ConcNext ==
    \/ \E t \in Pushers : BoundedPushCall(t) \/ PushLock(t) \/ PushAppend(t)
    \/ \E t \in Swappers :
         BoundedSwapCall(t) \/ SwapLock1(t) \/ SwapLock2(t) \/ SwapExchange(t)
    \/ BoundedDrainCall \/ DrainLock \/ DrainApply \/ DrainReturn

ConcSpec == Init /\ [][ConcNext]_vars

\* The frame loop: the frame thread alone swaps, and drains after each swap;
\* MaxFramePush pushes in all.
FramePushCall(t) == Issued < MaxFramePush /\ PushCall(t)

FrameSwapCall == frameLast = "drain" /\ SwapCall(Frame)

FrameDrainCall == frameLast = "swap" /\ DrainCall

FrameNext ==
    \/ \E t \in Pushers : FramePushCall(t) \/ PushLock(t) \/ PushAppend(t)
    \/ FrameSwapCall \/ SwapLock1(Frame) \/ SwapLock2(Frame) \/ SwapExchange(Frame)
    \/ FrameDrainCall \/ DrainLock \/ DrainApply \/ DrainReturn

FrameSpec == Init /\ [][FrameNext]_vars

\* Fair scheduling: a thread inside a call that can take its next step (its
\* lock is free, or it holds what it needs) eventually takes it.
Fairness ==
    /\ \A t \in Pushers : WF_vars(PushStep(t))
    /\ \A t \in Swappers : WF_vars(SwapStep(t))
    /\ WF_vars(DrainStep)

FairConcSpec == ConcSpec /\ Fairness

\* The frame loop never stops: the frame thread keeps swapping and draining.
FairFrameSpec ==
    FrameSpec /\ Fairness /\ WF_vars(FrameSwapCall) /\ WF_vars(FrameDrainCall)

\* ------------------------------------ direct calls of the light manager

Handles == 0..MaxHandle

\* add(handle, light)
LightAdd(h, L) ==
    /\ ~panicked
    /\ data' = add(data, h, L)
    /\ lastCall' = [op |-> "add", handle |-> h, light |-> L, before |-> data]
    /\ UNCHANGED <<panicked, queueVars, histVars, atlasVars, conversions>>

\* update(handle, change)
LightUpdate(h, c) ==
    /\ ~panicked
    /\ IF updatePanics(data, h)
       THEN panicked' = TRUE /\ data' = data
       ELSE panicked' = FALSE /\ data' = update(data, h, c)
    /\ lastCall' = [op |-> "update", handle |-> h, change |-> c, before |-> data]
    /\ UNCHANGED <<queueVars, histVars, atlasVars, conversions>>

\* remove(handle)
LightRemove(h) ==
    /\ ~panicked
    /\ IF removePanics(data, h)
       THEN panicked' = TRUE /\ data' = data
       ELSE panicked' = FALSE /\ data' = remove(data, h)
    /\ lastCall' = [op |-> "remove", handle |-> h, before |-> data]
    /\ UNCHANGED <<queueVars, histVars, atlasVars, conversions>>

LightNext ==
    \/ \E h \in Handles, L \in Lights : LightAdd(h, L)
    \/ \E h \in Handles, c \in Changes : LightUpdate(h, c)
    \/ \E h \in Handles : LightRemove(h)

LightSpec == Init /\ [][LightNext]_vars

\* ------------------------------ shadow_alloc, modelled from its contract

\* The order the allocator places lights in: larger resolution first, ties
\* by handle index ascending.
PlacedBefore(a, b) ==
    \/ a.resolution > b.resolution
    \/ a.resolution = b.resolution /\ a.handle < b.handle

RECURSIVE SortMaps(_)
SortMaps(maps) ==
    IF maps = <<>>
    THEN <<>>
    ELSE LET all == {maps[i] : i \in DOMAIN maps}
             first == CHOOSE m \in all : \A o \in all : o = m \/ PlacedBefore(m, o)
         IN  <<first>> \o SortMaps(SelectSeq(maps, LAMBDA o : o # first))

\* Shelf placement of the sorted lights in a square of the given side: the
\* next light goes right of the last one if the shelf has room, else onto a
\* new shelf below. x is the room used on the shelf at y, height its height.
RECURSIVE Shelve(_, _, _, _, _)
Shelve(maps, side, x, y, height) ==
    IF maps = <<>>
    THEN [ok |-> TRUE, maps |-> <<>>]
    ELSE LET m == Head(maps)
             r == m.resolution
         IN  IF x + r <= side /\ y + r <= side
             THEN LET rest == Shelve(Tail(maps), side, x + r, y, height)
                  IN  [ok |-> rest.ok,
                       maps |-> <<[handle |-> m.handle, offset |-> <<x, y>>, size |-> r]>>
                                \o rest.maps]
             ELSE IF r <= side /\ y + height + r <= side
             THEN LET rest == Shelve(Tail(maps), side, r, y + height, r)
                  IN  [ok |-> rest.ok,
                       maps |-> <<[handle |-> m.handle, offset |-> <<0, y + height>>,
                                   size |-> r]>> \o rest.maps]
             ELSE [ok |-> FALSE, maps |-> <<>>]

\* The candidate side doubles until the lights fit or it passes the maximum.
RECURSIVE GrowAtlas(_, _, _)
GrowAtlas(maps, side, max_dimension) ==
    IF side > max_dimension
    THEN None
    ELSE LET placed == Shelve(maps, side, 0, 0, Head(maps).resolution)
         IN  IF placed.ok
             THEN Some([texture_dimensions |-> UVec2Splat(side), maps |-> placed.maps])
             ELSE GrowAtlas(maps, side * 2, max_dimension)

\* The lowest-priority light is dropped until the rest fits; None if nothing
\* is left.
RECURSIVE DropUntilFits(_, _)
DropUntilFits(maps, max_dimension) ==
    IF maps = <<>>
    THEN None
    ELSE LET atlas == GrowAtlas(maps, Head(maps).resolution, max_dimension)
         IN  IF IsSome(atlas)
             THEN atlas
             ELSE DropUntilFits(SubSeq(maps, 1, Len(maps) - 1), max_dimension)

\* shadow_alloc::allocate_shadow_atlas(maps, max_dimension) -> Option<ShadowAtlas>
allocate_shadow_atlas(maps, max_dimension) ==
    DropUntilFits(SortMaps(maps), max_dimension)

\* shadow_camera::shadow_camera(light, user_camera) -> CameraState
shadow_camera(light, user_camera) == [light |-> light, user_camera |-> user_camera]

\* ------------------------------------ DirectionalLightManager::evaluate

\* renderer.limits.max_texture_dimension_2d of the renderers evaluate is given.
TextureLimits == {32, 64}

\* The user cameras evaluate is given.
CameraStates == {"user_camera"}

\* The lights and changes given between evaluations: every resolution, one
\* intensity.
AtlasLights == {L \in Lights : \A M \in Lights : L.intensity <= M.intensity}

AtlasChanges == {c \in Changes : ~IsSome(c.intensity)}

\* (handle, resolution) of every live light, in index order: the filter_map
\* over self.data.iter().enumerate().
RECURSIVE shadow_maps_from(_, _)
shadow_maps_from(d, i) ==
    IF i > Len(d)
    THEN <<>>
    ELSE (IF IsSome(d[i])
          THEN <<[handle |-> i - 1, resolution |-> d[i].val.resolution]>>
          ELSE <<>>) \o shadow_maps_from(d, i + 1)

shadow_maps(d) == shadow_maps_from(d, 1)

\* A store whose slots evaluate would have taken rather than borrowed.
StoreTaken(d) == [i \in DOMAIN d |-> None]

\* self.data after evaluate's reads of it: iter() and as_ref() borrow.
StoreBorrowed(d) == d

\* A size that is zero when there is no packing.
newSizeZeroWithoutAtlas(shadow_atlas) ==
    IF IsSome(shadow_atlas)
    THEN UVec2Max(shadow_atlas.val.texture_dimensions, MINIMUM_SHADOW_MAP_SIZE)
    ELSE UVec2Splat(0)

\* A size that is the smaller of the packing's and the minimum.
newSizeIsMin(shadow_atlas) ==
    IF IsSome(shadow_atlas)
    THEN UVec2Min(shadow_atlas.val.texture_dimensions, MINIMUM_SHADOW_MAP_SIZE)
    ELSE MINIMUM_SHADOW_MAP_SIZE

\* let new_shadow_map_size = match shadow_atlas { Some(ref m) => ..., None => ... }
new_shadow_map_size(shadow_atlas) ==
    IF IsSome(shadow_atlas)
    THEN UVec2Max(shadow_atlas.val.texture_dimensions, MINIMUM_SHADOW_MAP_SIZE)
    ELSE MINIMUM_SHADOW_MAP_SIZE

\* A test that recreates the texture on every call.
AlwaysNewTexture(new_size, held) == TRUE

\* if new_shadow_map_size != self.texture_size
NeedsNewTexture(new_size, held) == new_size # held

\* The quotient n / d of two f32, kept as the pair it is the quotient of.
Ratio(n, d) == [num |-> n, den |-> d]

\* A Vec2 divided by the minimum size whatever the atlas size is.
DivByMinimum(v, size) ==
    <<Ratio(v[1], MINIMUM_SHADOW_MAP_SIZE[1]), Ratio(v[2], MINIMUM_SHADOW_MAP_SIZE[2])>>

\* v / new_shadow_map_size_f32: component-wise division of two Vec2
DivByAtlasSize(v, size) == <<Ratio(v[1], size[1]), Ratio(v[2], size[2])>>

\* The ShaderDirectionalLight built for one descriptor; a scalar in a
\* division by a Vec2 stands for both components.
ShaderDirectionalLight(desc, light, size) ==
    [view_proj      |-> desc.camera,
     color          |-> light.intensity,
     inv_resolution |-> DivByAtlasSize(UVec2Splat(1), size),
     atlas_offset   |-> DivByAtlasSize(desc.map.offset, size),
     atlas_size     |-> DivByAtlasSize(UVec2Splat(desc.map.size), size)]

\* let shadow_data = coordinates.into_iter().map(...).collect()
ShadowData(d, coordinates, user_camera) ==
    [i \in DOMAIN coordinates |->
        [map    |-> coordinates[i],
         camera |-> shadow_camera(Slot(d, coordinates[i].handle).val, user_camera)]]

\* let buffer = ShaderDirectionalLightBuffer { count, array }
ShaderDirectionalLightBuffer(d, shadow_data, size) ==
    [count |-> Len(shadow_data),
     array |-> [i \in DOMAIN shadow_data |->
                  ShaderDirectionalLight(shadow_data[i],
                                         Slot(d, shadow_data[i].map.handle).val,
                                         size)]]

\* DirectionalLightManager::evaluate(renderer, user_camera), called with the
\* renderer the manager was called with before, if any.
Evaluate(limit, user_camera) ==
    /\ ~panicked
    /\ limits \in {None, Some(limit)}
    /\ limits' = Some(limit)
    /\ LET shadow_atlas == allocate_shadow_atlas(shadow_maps(data), limit)
           new_size == new_shadow_map_size(shadow_atlas)
           recreate == NeedsNewTexture(new_size, texture_size)
           shadow_data == IF IsSome(shadow_atlas)
                          THEN ShadowData(data, shadow_atlas.val.maps, user_camera)
                          ELSE <<>>
       IN  /\ texture_size' = IF recreate THEN new_size ELSE texture_size
           /\ texture_view' = IF recreate
                              THEN create_shadow_texture(FreshTexture(texture_view), new_size)
                              ELSE texture_view
           /\ data_buffer' = IF IsSome(shadow_atlas)
                             THEN ShaderDirectionalLightBuffer(data, shadow_data, new_size)
                             ELSE data_buffer
           /\ lastCall' = [op |-> "evaluate", shadow_atlas |-> shadow_atlas,
                           size |-> new_size, shadow_data |-> shadow_data,
                           recreated |-> recreate]
    /\ data' = StoreBorrowed(data)
    /\ UNCHANGED <<panicked, queueVars, histVars, conversions>>

\* add, update and remove as the frame's code calls them between evaluations.
AtlasAdd(h, L) ==
    /\ ~panicked
    /\ data' = add(data, h, L)
    /\ lastCall' = [op |-> "add"]
    /\ UNCHANGED <<panicked, atlasVars, queueVars, histVars, conversions>>

AtlasUpdate(h, c) ==
    /\ ~panicked
    /\ IF updatePanics(data, h)
       THEN panicked' = TRUE /\ data' = data
       ELSE panicked' = FALSE /\ data' = update(data, h, c)
    /\ lastCall' = [op |-> "update"]
    /\ UNCHANGED <<atlasVars, queueVars, histVars, conversions>>

AtlasRemove(h) ==
    /\ ~panicked
    /\ IF removePanics(data, h)
       THEN panicked' = TRUE /\ data' = data
       ELSE panicked' = FALSE /\ data' = remove(data, h)
    /\ lastCall' = [op |-> "remove"]
    /\ UNCHANGED <<atlasVars, queueVars, histVars, conversions>>

AtlasNext ==
    \/ \E h \in Handles, L \in AtlasLights : AtlasAdd(h, L)
    \/ \E h \in Handles, c \in AtlasChanges : AtlasUpdate(h, c)
    \/ \E h \in Handles : AtlasRemove(h)
    \/ \E limit \in TextureLimits, user_camera \in CameraStates :
           Evaluate(limit, user_camera)

AtlasSpec == Init /\ [][AtlasNext]_vars

\* ------------------------------------------- DeletableRawResourceHandle

\* The handle types that implement DeletableRawResourceHandle.
HandleTypes ==
    {"RawMeshHandle", "RawSkeletonHandle", "RawTexture2DHandle",
     "RawTextureCubeHandle", "RawMaterialHandle", "RawObjectHandle",
     "RawDirectionalLightHandle", "RawPointLightHandle",
     "RawGraphDataHandleUntyped"}

\* The implementations with the cube texture's body copied from the 2D one.
DeleteKindCopied(T) ==
    CASE T = "RawMeshHandle" -> "DeleteMesh"
      [] T = "RawSkeletonHandle" -> "DeleteSkeleton"
      [] T = "RawTexture2DHandle" -> "DeleteTexture2D"
      [] T = "RawTextureCubeHandle" -> "DeleteTexture2D"
      [] T = "RawMaterialHandle" -> "DeleteMaterial"
      [] T = "RawObjectHandle" -> "DeleteObject"
      [] T = "RawDirectionalLightHandle" -> "DeleteDirectionalLight"
      [] T = "RawPointLightHandle" -> "DeletePointLight"
      [] T = "RawGraphDataHandleUntyped" -> "DeleteGraphData"

\* The InstructionKind variant each impl of the trait builds.
DeleteKindOf(T) ==
    CASE T = "RawMeshHandle" -> "DeleteMesh"
      [] T = "RawSkeletonHandle" -> "DeleteSkeleton"
      [] T = "RawTexture2DHandle" -> "DeleteTexture2D"
      [] T = "RawTextureCubeHandle" -> "DeleteTextureCube"
      [] T = "RawMaterialHandle" -> "DeleteMaterial"
      [] T = "RawObjectHandle" -> "DeleteObject"
      [] T = "RawDirectionalLightHandle" -> "DeleteDirectionalLight"
      [] T = "RawPointLightHandle" -> "DeletePointLight"
      [] T = "RawGraphDataHandleUntyped" -> "DeleteGraphData"

\* fn into_delete_instruction_kind(self) -> InstructionKind, for a handle of
\* type T with index h: InstructionKind::DeleteX { handle: self }
into_delete_instruction_kind(T, h) == [kind |-> DeleteKindOf(T), handle |-> h]

\* A caller turns a handle into its delete instruction.
IntoDelete(T, h) ==
    /\ ~panicked
    /\ Len(conversions) < MaxConversions
    /\ conversions' = Append(conversions,
                             [type |-> T, handle |-> h,
                              result |-> into_delete_instruction_kind(T, h)])
    /\ UNCHANGED <<queueVars, histVars, lightVars>>

DeleteNext == \E T \in HandleTypes, h \in Handles : IntoDelete(T, h)

DeleteSpec == Init /\ [][DeleteNext]_vars

\* ------------------------------------------------------------------ claims

Range(q) == {q[i] : i \in DOMAIN q}

Locs(q) == [i \in DOMAIN q |-> q[i].location]

\* C1 as stated: right after a swap the consumer holds exactly the
\* instructions pushed since the previous swap, in push order.
C1_ConsumerIsPushesSinceSwap ==
    lastSwap.valid => consumer = lastSwap.pushes

\* C1 amended: right after a swap the consumer holds what the consumer still
\* held when the previous swap exchanged (that swap moved it into the
\* producer), followed by the instructions pushed since the previous swap, in
\* push order; so exactly those pushes when the previous swap found the
\* consumer empty.
C1_ConsumerIsCarriedThenPushes ==
    lastSwap.valid =>
        /\ consumer = lastSwap.carried \o lastSwap.pushes
        /\ (lastSwap.carried = <<>> => consumer = lastSwap.pushes)

\* A third swap has just returned undrained instructions of the first.
C1_Witness ==
    /\ lastSwap.valid
    /\ lastSwap.carried # <<>>
    /\ Len(lastSwap.pushes) >= 2

\* C2 as stated: the producer is empty right after every swap.
C2_ProducerEmptyAfterSwap ==
    lastSwap.valid => producer = <<>>

\* C2 amended: right after a swap the producer holds exactly what the
\* consumer held when the swap exchanged; it is empty if and only if the
\* consumer had been drained completely (or never filled) before the swap.
C2_ProducerIsOldConsumer ==
    lastSwap.valid =>
        /\ producer = carried
        /\ (producer = <<>> <=> carried = <<>>)

\* A swap after a complete drain has just left the producer empty.
C2_Witness ==
    /\ lastSwap.valid
    /\ swaps = 2
    /\ applied # <<>>
    /\ producer = <<>>
    /\ consumer # <<>>

\* Every pusher has issued m pushes, all have returned, and the one swap of
\* the pair has just exchanged.
AllPushedThenSwapped(m) ==
    /\ lastSwap.valid
    /\ swaps = 1
    /\ \A t \in Pushers : pushed[t] = m /\ pc[t] = "idle"

\* The positions of thread t's instructions in q keep t's push order.
KeepsOrderOf(t, q) ==
    \A i, j \in DOMAIN q :
        (i < j /\ q[i].location[1] = t /\ q[j].location[1] = t)
            => q[i].location[2] < q[j].location[2]

\* C3: N threads push M instructions each on a fresh pair, then one swap:
\* the consumer holds the N*M instructions, each once, every thread's in the
\* order it pushed them.
C3_ConcurrentPushesAllArrive ==
    \A m \in 1..MaxPush :
        AllPushedThenSwapped(m) =>
            /\ Len(consumer) = Cardinality(Pushers) * m
            /\ Range(Locs(consumer)) = {<<t, i>> : t \in Pushers, i \in 1..m}
            /\ \A t \in Pushers : KeepsOrderOf(t, consumer)

\* Two pushes of each thread, interleaved in the consumer.
C3_Witness ==
    /\ AllPushedThenSwapped(2)
    /\ consumer[1].location[1] # consumer[2].location[1]
    /\ consumer[2].location[1] # consumer[3].location[1]

\* Every appended instruction is in exactly one place, once.
Conserved ==
    LET all == Locs(producer) \o Locs(consumer) \o Locs(applied)
    IN  /\ Len(all) = Len(appendLog)
        /\ Range(all) = Range(Locs(appendLog))
        /\ Cardinality(Range(all)) = Len(all)

\* The step is the exchange of a swap by thread t.
IsExchange(t) ==
    /\ pc[t] = "swap_exchange"
    /\ pc'[t] = "idle"
    /\ consumer' = producer
    /\ producer' = consumer

\* C4: a swap is atomic for concurrent pushes: every instruction pushed is, at
\* all times, exactly once in the producer, the consumer or among the applied
\* ones; the consumer changes only by a swap's exchange or by the drain
\* taking its head, and the producer only by an exchange or by one append.
C4_SwapAtomic ==
    /\ []Conserved
    /\ [][/\ consumer' # consumer =>
               \/ \E t \in Swappers : IsExchange(t)
               \/ pc[Frame] = "drain_apply" /\ consumer' = Tail(consumer)
          /\ producer' # producer =>
               \/ \E t \in Swappers : IsExchange(t)
               \/ \E t \in Pushers :
                    /\ lock["producer"] = t
                    /\ producer' = Append(producer, arg[t])
                    /\ consumer' = consumer]_vars

\* A push that waited for a swap is about to append behind it, while the
\* consumer holds what was pushed before the swap.
C4_Witness ==
    /\ swaps >= 1
    /\ consumer # <<>>
    /\ \E t \in Pushers, s \in Swappers :
         pc[t] = "push_lock" /\ pc[s] = "swap_lock2" /\ lock["producer"] = s

IsPrefix(q, r) == Len(q) <= Len(r) /\ q = SubSeq(r, 1, Len(q))

\* C5: with the frame thread alone swapping and draining after each swap,
\* instructions are applied in the order they were appended.
C5_AppliedInAppendOrder ==
    IsPrefix(applied, appendLog)

\* Instructions of both pushers applied over two frames.
C5_Witness ==
    /\ swaps = 2
    /\ Len(applied) >= 2
    /\ \E i, j \in DOMAIN applied : applied[i].location[1] # applied[j].location[1]
    /\ producer # <<>>

\* The location of every push the callers can issue in the frame loop.
AllLocations == Pushers \X (1..MaxFramePush)

\* C6: with the frame thread swapping and draining for ever, every
\* instruction whose push has returned is eventually applied, and exactly
\* once: none is lost, none is applied twice.
C6_EveryPushAppliedOnce ==
    /\ [](Conserved /\ Cardinality(Range(Locs(applied))) = Len(applied))
    /\ \A loc \in AllLocations :
         (loc \in Range(Locs(appendLog))) ~> (loc \in Range(Locs(applied)))

\* Every push the callers could issue has been applied.
C6_Witness ==
    /\ Len(applied) = MaxFramePush
    /\ producer = <<>>
    /\ consumer = <<>>
    /\ swaps = 2

\* The lock thread t is waiting for.
WaitsFor(t) ==
    CASE pc[t] = "push_lock"  -> "producer"
      [] pc[t] = "swap_lock1" -> SwapLockOrder(t)[1]
      [] pc[t] = "swap_lock2" -> SwapLockOrder(t)[2]
      [] pc[t] = "drain_lock" -> "consumer"
      [] OTHER                -> "nothing"

\* Nobody waits for the producer lock while holding the consumer lock, and a
\* pusher never holds the consumer lock.
LockOrderKept ==
    /\ \A t \in Threads : lock["consumer"] = t => WaitsFor(t) # "producer"
    /\ \A t \in Pushers : lock["consumer"] # t

\* C7: swap takes the producer lock, then the consumer lock, push only the
\* producer lock, and under fair scheduling every call of push and swap (and
\* every drain) returns, unless a contract violation ends the process.
C7_DeadlockFree ==
    /\ []LockOrderKept
    /\ \A t \in Threads : (pc[t] # "idle") ~> (pc[t] = "idle" \/ panicked)

\* Both swap callers and a pusher are inside their calls, waiting for locks.
C7_Witness ==
    /\ pc[Frame] = "swap_lock2"
    /\ pc[Aux] = "swap_lock1"
    /\ \E t \in Pushers : pc[t] = "push_lock"

\* C8: a push never waits, through a swap caller that holds the producer
\* lock, for the holder of the consumer lock.
C8_PushNeverWaitsOnConsumerHolder ==
    ~ \E t \in Pushers, s \in Swappers :
        /\ pc[t] = "push_lock"
        /\ lock["producer"] = s
        /\ pc[s] = "swap_lock2"
        /\ lock["consumer"] \notin {NoThread, s}

\* The instructions applied so far that are about handle h.
AppliedFor(h) == SelectSeq(applied, LAMBDA i : i.kind.handle = h)

\* If the last instruction applied about h is its Delete, slot h is empty.
DeletedIsEmpty(h) ==
    LET q == AppliedFor(h)
    IN  (q # <<>> /\ q[Len(q)].kind.kind = "DeleteDirectionalLight") => ~Live(data, h)

\* C9 as stated: for every placement of swaps and drains, applying a
\* handle's Add, Changes and Delete never hits an empty slot, and the slot is
\* empty once the Delete is applied.
C9_LifecycleNeverPanics ==
    /\ ~panicked
    /\ \A t \in Pushers : DeletedIsEmpty(HandleOf(t))

\* C9 amended: the same, for every placement of swaps and drains in which
\* every swap finds the consumer empty (never filled, or drained completely
\* since the swap before).
C9_LifecycleNeverPanicsIfDrained ==
    drainedSwaps =>
        /\ ~panicked
        /\ \A t \in Pushers : DeletedIsEmpty(HandleOf(t))

\* A caller's Add, Change and Delete have been applied over two frames,
\* among another caller's instruction, and the slot is empty.
C9_Witness ==
    /\ drainedSwaps
    /\ swaps = 2
    /\ \E t \in Pushers :
         LET q == AppliedFor(HandleOf(t))
         IN  /\ Len(q) = 3
             /\ q[2].kind.kind = "ChangeDirectionalLight"
             /\ q[3].kind.kind = "DeleteDirectionalLight"
             /\ Len(applied) = 4
             /\ ~Live(data, HandleOf(t))

\* C10: after add(h, L), whatever the store held, slot h is live and holds L.
C10_AddStoresLight ==
    lastCall.op = "add" =>
        /\ Live(data, lastCall.handle)
        /\ Slot(data, lastCall.handle).val = lastCall.light

\* An add has just overwritten another light in a live slot.
C10_Witness ==
    /\ lastCall.op = "add"
    /\ Live(lastCall.before, lastCall.handle)
    /\ Slot(lastCall.before, lastCall.handle).val # lastCall.light
    /\ Len(data) = MaxHandle + 1

\* C11: remove(h) on a live handle empties slot h; update(h) and remove(h) on
\* a handle whose slot is empty or past the end of storage panic at once,
\* leaving the store as it was, and never return normally.
C11_EmptySlotPanics ==
    lastCall.op \in {"update", "remove"} =>
        /\ panicked <=> ~Live(lastCall.before, lastCall.handle)
        /\ panicked => data = lastCall.before
        /\ (lastCall.op = "remove" /\ ~panicked) => ~Live(data, lastCall.handle)
        /\ (lastCall.op = "update" /\ ~panicked) => Live(data, lastCall.handle)

\* A remove of a handle whose slot exists and is empty, next to a live one,
\* has panicked.
C11_Witness ==
    /\ lastCall.op = "remove"
    /\ panicked
    /\ lastCall.handle < Len(data)
    /\ \E h \in Handles : Live(data, h)

\* C12: an add past the end grows storage to exactly h.idx + 1 slots, the new
\* slots other than h empty; add, update and remove on h leave every other
\* slot as it was, and storage never shrinks.
C12_OtherSlotsKept ==
    lastCall.op \in {"add", "update", "remove"} =>
        LET before == lastCall.before
            h == lastCall.handle
        IN  /\ Len(data) >= Len(before)
            /\ \A i \in 1..Len(before) : i # h + 1 => data[i] = before[i]
            /\ (lastCall.op = "add" /\ h >= Len(before)) =>
                   /\ Len(data) = h + 1
                   /\ \A i \in (Len(before) + 1)..h : data[i] = None
            /\ (lastCall.op # "add" \/ h < Len(before)) => Len(data) = Len(before)

\* An add two slots past a live light has just grown the storage.
C12_Witness ==
    /\ lastCall.op = "add"
    /\ Len(lastCall.before) = 1
    /\ Live(lastCall.before, 0)
    /\ lastCall.handle = 2
    /\ Len(data) = 3

\* The step in which thread t's swap performs mem::swap and returns.
SwapReturns(t) ==
    /\ pc[t] = "swap_exchange"
    /\ pc'[t] = "idle"

\* C20: swap is an exact exchange: the new producer is the old consumer and
\* the new consumer is the old producer, so nothing is created, dropped or
\* duplicated; what was left in the consumer stands in the producer ahead of
\* every later push; and a swap that follows a swap with no push or drain in
\* between puts both buffers back as they were before the first of the two.
C20_SwapIsExactExchange ==
    /\ [](producer = carried \o sinceSwap)
    /\ [][\A t \in Swappers : SwapReturns(t) =>
              /\ producer' = consumer
              /\ consumer' = producer
              /\ Len(producer') + Len(consumer') = Len(producer) + Len(consumer)
              /\ lastSwap.valid =>
                     /\ producer' = lastSwap.carried \o lastSwap.pushes
                     /\ consumer' = carried]_vars

\* Two swaps have run back to back on two non-empty buffers.
C20_Witness ==
    /\ lastSwap.valid
    /\ swaps = 2
    /\ lastSwap.pushes = <<>>
    /\ producer # <<>>
    /\ consumer # <<>>
    /\ producer # consumer

\* The Delete variant that belongs to each handle type's resource.
DeleteVariantFor ==
    [RawMeshHandle |-> "DeleteMesh",
     RawSkeletonHandle |-> "DeleteSkeleton",
     RawTexture2DHandle |-> "DeleteTexture2D",
     RawTextureCubeHandle |-> "DeleteTextureCube",
     RawMaterialHandle |-> "DeleteMaterial",
     RawObjectHandle |-> "DeleteObject",
     RawDirectionalLightHandle |-> "DeleteDirectionalLight",
     RawPointLightHandle |-> "DeletePointLight",
     RawGraphDataHandleUntyped |-> "DeleteGraphData"]

\* C16: into_delete_instruction_kind gives, for a handle of each of the nine
\* types, the Delete variant of that type's resource carrying exactly that
\* handle; handles of two different types never give the same variant; and a
\* conversion changes nothing else.
C16_DeleteOfOwnKind ==
    /\ [](\A i \in DOMAIN conversions :
              /\ conversions[i].type \in DOMAIN DeleteVariantFor
              /\ conversions[i].result.kind = DeleteVariantFor[conversions[i].type]
              /\ conversions[i].result.handle = conversions[i].handle)
    /\ [](\A i, j \in DOMAIN conversions :
              conversions[i].type # conversions[j].type =>
                  conversions[i].result.kind # conversions[j].result.kind)
    /\ [][conversions' # conversions =>
              UNCHANGED <<queueVars, histVars, lightVars>>]_vars

\* A 2D texture handle and a cube texture handle with the same index have
\* both been converted.
C16_Witness ==
    \E i, j \in DOMAIN conversions :
        /\ conversions[i].type = "RawTexture2DHandle"
        /\ conversions[j].type = "RawTextureCubeHandle"
        /\ conversions[i].handle = conversions[j].handle
        /\ conversions[i].handle > 0

\* C13: after every evaluate the light buffer holds exactly as many entries
\* as that call returned descriptors, entry i built from descriptor i; this
\* includes the calls that return no descriptor because no packing exists.
C13_BufferMatchesReturned ==
    lastCall.op = "evaluate" =>
        /\ data_buffer.count = Len(lastCall.shadow_data)
        /\ Len(data_buffer.array) = Len(lastCall.shadow_data)
        /\ \A i \in DOMAIN data_buffer.array :
               data_buffer.array[i].view_proj = lastCall.shadow_data[i].camera

NoLiveLight == \A h \in Handles : ~Live(data, h)

\* C14: an evaluate of a store with no live light returns the side length 32
\* and no descriptor, and the texture held afterwards has side length 32.
C14_NoLightGivesFloor ==
    (lastCall.op = "evaluate" /\ NoLiveLight) =>
        /\ lastCall.size = <<32, 32>>
        /\ lastCall.shadow_data = <<>>
        /\ texture_size = <<32, 32>>
        /\ texture_view.size = <<32, 32>>

\* An evaluate after the last light was removed has shrunk the texture.
C14_Witness ==
    /\ lastCall.op = "evaluate"
    /\ NoLiveLight
    /\ Len(data) > 0
    /\ lastCall.recreated
    /\ data_buffer.count > 0

\* A quotient of two non-negative numbers that lies in [0, 1].
InUnit(q) == q.den > 0 /\ 0 <= q.num /\ q.num <= q.den

\* C15: every entry written to the light buffer has atlas_offset and
\* atlas_size in [0, 1] in both components, the rectangle's far edge
\* included: the placements lie inside the packing's square and are divided
\* by the returned side length, which is at least the packing's.
C15_EntriesNormalised ==
    /\ \A i \in DOMAIN data_buffer.array :
           \A k \in 1..2 :
               LET e == data_buffer.array[i]
               IN  /\ InUnit(e.atlas_offset[k])
                   /\ InUnit(e.atlas_size[k])
                   /\ e.atlas_offset[k].den = e.atlas_size[k].den
                   /\ e.atlas_offset[k].num + e.atlas_size[k].num <= e.atlas_size[k].den
    /\ (lastCall.op = "evaluate" /\ IsSome(lastCall.shadow_atlas)) =>
           \A i \in DOMAIN lastCall.shadow_data :
               \A k \in 1..2 :
                   LET m == lastCall.shadow_data[i].map
                       e == data_buffer.array[i]
                   IN  /\ m.offset[k] + m.size
                              <= lastCall.shadow_atlas.val.texture_dimensions[k]
                       /\ lastCall.shadow_atlas.val.texture_dimensions[k]
                              <= lastCall.size[k]
                       /\ e.atlas_offset[k] = Ratio(m.offset[k], lastCall.size[k])
                       /\ e.atlas_size[k] = Ratio(m.size, lastCall.size[k])

\* An evaluate has written a light placed on a second shelf.
C15_Witness ==
    /\ lastCall.op = "evaluate"
    /\ IsSome(lastCall.shadow_atlas)
    /\ \E i \in DOMAIN data_buffer.array :
           /\ data_buffer.array[i].atlas_offset[2].num > 0
           /\ data_buffer.array[i].atlas_offset[2].num
                  + data_buffer.array[i].atlas_size[2].num
                  = data_buffer.array[i].atlas_size[2].den

\* C17: evaluate returns max(32, packing side) when there is a packing and 32
\* when there is none; the texture held has a side of at least 32 in every
\* state, and after an evaluate its side is the one that call returned.
C17_SideIsFlooredPackingSide ==
    /\ \A k \in 1..2 : texture_size[k] >= 32
    /\ texture_view.size = texture_size
    /\ lastCall.op = "evaluate" =>
           /\ texture_size = lastCall.size
           /\ \A k \in 1..2 :
                  lastCall.size[k] =
                      IF IsSome(lastCall.shadow_atlas)
                      THEN (IF lastCall.shadow_atlas.val.texture_dimensions[k] >= 32
                            THEN lastCall.shadow_atlas.val.texture_dimensions[k]
                            ELSE 32)
                      ELSE 32

\* An evaluate whose packing has side 16 has returned 32.
C17_Witness ==
    /\ lastCall.op = "evaluate"
    /\ IsSome(lastCall.shadow_atlas)
    /\ lastCall.shadow_atlas.val.texture_dimensions = <<16, 16>>
    /\ texture_size = <<32, 32>>
    /\ data_buffer.count = 1

\* C18: an evaluate creates a new texture exactly when the side it computes
\* differs from the side held before the call, so an evaluate that computes
\* the side of the evaluate before it creates none; add, update and remove
\* neither create a texture nor change the side held.
C18_TextureRecreatedOnChange ==
    [][/\ lastCall'.op = "evaluate" =>
              /\ texture_view' # texture_view <=> lastCall'.size # texture_size
              /\ texture_size' # texture_size <=> lastCall'.size # texture_size
              /\ lastCall'.recreated <=> texture_view' # texture_view
              /\ (lastCall.op = "evaluate" /\ lastCall'.size = lastCall.size) =>
                     texture_view' = texture_view
       /\ lastCall'.op \in {"add", "update", "remove"} =>
              UNCHANGED <<texture_size, texture_view>>]_vars

\* An evaluate has replaced the texture by one of side 64.
C18_Witness ==
    /\ lastCall.op = "evaluate"
    /\ lastCall.recreated
    /\ texture_size = <<64, 64>>
    /\ texture_view.size = <<64, 64>>

\* C19: evaluate leaves the light storage as it found it: no slot is added,
\* removed or changed and the length stays.
C19_EvaluateKeepsStore ==
    [][lastCall'.op = "evaluate" => data' = data]_vars

\* An evaluate has returned descriptors for two live lights.
C19_Witness ==
    /\ lastCall.op = "evaluate"
    /\ Len(lastCall.shadow_data) >= 2
    /\ \E h \in Handles : Live(data, h)
    /\ \E h \in Handles : h < Len(data) /\ ~Live(data, h)

====
